---- MODULE Spec2Model ----
(***************************************************************************)
(* Model of src/rust/src/lib.rs: the two's-complement codec                *)
(* (calculate_twos_complement_rust, decimal_to_twos_complement_rust) and   *)
(* the UTM zone / MGRS band resolver (calculate_utm_zone).                 *)
(*                                                                         *)
(* Every function of the library is pure.  A behaviour of the model is one *)
(* call: the function called (op), its arguments (input) and, once the     *)
(* call is made, what it produced (output).  An output is Ok(v), Err(e) or *)
(* Panic(m): a Rust panic is an outcome of its own, neither a success nor  *)
(* an error value.                                                         *)
(*                                                                         *)
(* Strings are sequences of one-character strings: "1101" is               *)
(* <<"1","1","0","1">>.  i32 values are integers in I32_MIN..I32_MAX and   *)
(* every intermediate of the model stays inside that range, as the code's  *)
(* does; what happens when the code's arithmetic leaves the range depends  *)
(* on the build (overflow_checks) and is modelled by i32_add, i32_sub,     *)
(* i32_neg and i32_shl_one.                                                *)
(***************************************************************************)
EXTENDS Integers, Sequences, FiniteSets, TLC

VARIABLES
    overflow_checks,  \* TRUE: debug/test profile (overflow panics); FALSE: release (wraps)
    op,               \* the function called
    input,            \* the arguments of the call
    output            \* the outcome of the call, <<>> until it is made

vars == <<overflow_checks, op, input, output>>

---------------------------------------------------------------------------
(* Bounds of the input sets *)

MaxShort == 3        \* every string over Alphabet up to this length is an input
MaxAffix == 2        \* long strings: head and tail of up to this many bits
MaxFill == 31        \* long strings: a run of MaxFill-3 .. MaxFill equal bits
MaxSmallSize == 5    \* every size 0..MaxSmallSize is an input
SizeSlack == 2       \* sizes I32_BITS-2 .. I32_BITS+SizeSlack are inputs
MaxLatDeg == 91      \* latitudes -MaxLatDeg .. MaxLatDeg degrees are inputs
MaxLonDeg == 181     \* longitudes -MaxLonDeg .. MaxLonDeg degrees are inputs

---------------------------------------------------------------------------
(* i32 *)

I32_BITS == 32
I32_MAX == 2147483647
I32_MIN == -I32_MAX - 1

\* Result: Ok(value) or Err(error); an error is the tuple of its variant's
\* name and payload
Ok(v) == [tag |-> "Ok", val |-> v]
Err(e) == [tag |-> "Err", err |-> e]
\* a panic: the call does not return
Panic(m) == [tag |-> "Panic", msg |-> m]

\* a + b on i32: panics with overflow checks, wraps modulo 2^32 without
i32_add(a, b) ==
    IF b > 0 /\ a > I32_MAX - b
    THEN IF overflow_checks THEN Panic("attempt to add with overflow")
         ELSE Ok((a - I32_MAX - 1) + (b + I32_MIN))
    ELSE IF b < 0 /\ a < I32_MIN - b
    THEN IF overflow_checks THEN Panic("attempt to add with overflow")
         ELSE Ok((a - I32_MIN) + (b + I32_MAX) + 1)
    ELSE Ok(a + b)

\* a - b on i32
i32_sub(a, b) ==
    IF b > 0 /\ a < I32_MIN + b
    THEN IF overflow_checks THEN Panic("attempt to subtract with overflow")
         ELSE Ok((a - I32_MIN) + (I32_MAX - b) + 1)
    ELSE IF b < 0 /\ a > I32_MAX + b
    THEN IF overflow_checks THEN Panic("attempt to subtract with overflow")
         ELSE Ok((a - I32_MAX - 1) + (I32_MIN - b))
    ELSE Ok(a - b)

\* -a on i32: only -I32_MIN overflows, and wraps to I32_MIN
i32_neg(a) ==
    IF a = I32_MIN
    THEN IF overflow_checks THEN Panic("attempt to negate with overflow")
         ELSE Ok(I32_MIN)
    ELSE Ok(-a)

\* 1 << k on i32, k a usize: an amount >= 32 panics with overflow checks and
\* is masked to its low 5 bits without; 1 << 31 is I32_MIN in either build
i32_shl_one(k) ==
    IF k >= I32_BITS /\ overflow_checks
    THEN Panic("attempt to shift left with overflow")
    ELSE LET m == k % I32_BITS
         IN  IF m = I32_BITS - 1 THEN Ok(I32_MIN) ELSE Ok(2 ^ m)

---------------------------------------------------------------------------
(* Strings of binary digits *)

\* .chars().map(|bit| if bit == '0' { '1' } else { '0' }).collect()
invert_bits(s) == [i \in 1..Len(s) |-> IF s[i] = "0" THEN "1" ELSE "0"]

\* binary_input.is_empty() || !binary_input.chars().all(|c| c == '0' || c == '1')
is_invalid_input(s) ==
    Len(s) = 0 \/ ~(\A i \in 1..Len(s) : s[i] = "0" \/ s[i] = "1")

\* The value of the binary digits s[lo..hi], or Overflow when it exceeds
\* I32_MAX; leading zeros add nothing.  The halves are combined as
\* high * 2^(digits of low) + low, which keeps the evaluation shallow.
Overflow == -1

RECURSIVE digits_value(_, _, _)
digits_value(s, lo, hi) ==
    IF lo > hi THEN 0
    ELSE IF lo = hi THEN (IF s[lo] = "1" THEN 1 ELSE 0)
    ELSE LET mid == (lo + hi) \div 2
             high == digits_value(s, lo, mid)
             low == digits_value(s, mid + 1, hi)
             low_len == hi - mid
         IN  IF high = Overflow \/ low = Overflow THEN Overflow
             ELSE IF high = 0 THEN low
             ELSE IF low_len >= I32_BITS - 1 THEN Overflow
             ELSE IF high > (I32_MAX - low) \div (2 ^ low_len) THEN Overflow
             ELSE high * (2 ^ low_len) + low

\* Mutant of from_str_radix: overflow decided by the length of the string,
\* leading zeros included, instead of by its value
from_str_radix_by_length(s) ==
    IF Len(s) = 0 THEN Err(<<"Empty">>)
    ELSE IF Len(s) > I32_BITS - 1 THEN Err(<<"PosOverflow">>)
    ELSE Ok(digits_value(s, 1, Len(s)))

\* i32::from_str_radix(s, 2) on a string of binary digits without sign (both
\* call sites pass only '0' and '1'): the value, or PosOverflow when the
\* value does not fit an i32; an empty string is an error too
from_str_radix(s) ==
    IF Len(s) = 0 THEN Err(<<"Empty">>)
    ELSE LET value == digits_value(s, 1, Len(s))
         IN  IF value = Overflow THEN Err(<<"PosOverflow">>) ELSE Ok(value)

\* enum TwosComplementError; ParseError carries the kind of the ParseIntError
InvalidInput == Err(<<"InvalidInput">>)
ParseError(cause) == Err(<<"ParseError", cause[1]>>)
InvalidSize == Err(<<"InvalidSize">>)
OverflowError == Err(<<"OverflowError">>)

\* the number of binary digits of n >= 0; 0 has one digit
bit_length(n) ==
    IF n = 0 THEN 1 ELSE CHOOSE k \in 1..(I32_BITS - 1) : n \div (2 ^ (k - 1)) = 1

\* the digits of n >= 0 in base 2, most significant first, no leading zeros
binary_digits(n) ==
    LET len == bit_length(n)
    IN  [i \in 1..len |-> IF (n \div (2 ^ (len - i))) % 2 = 1 THEN "1" ELSE "0"]

\* `0` repeated k times
zeros(k) == [i \in 1..k |-> "0"]

\* {:b} of an i32: a negative value prints as its 32-bit two's complement,
\* that is '1' followed by the 31 low bits, whose value is v - I32_MIN
to_binary(v) ==
    IF v >= 0 THEN binary_digits(v)
    ELSE LET low == binary_digits(v - I32_MIN)
         IN  <<"1">> \o zeros(I32_BITS - 1 - Len(low)) \o low

\* the largest width a format! argument may have (u16::MAX)
FMT_MAX_WIDTH == 65535

\* Mutant of format_binary: the width is ignored ("{:b}")
format_binary_unpadded(v, width) ==
    IF width > FMT_MAX_WIDTH THEN Panic("Formatting argument out of range")
    ELSE Ok(to_binary(v))

\* format!("{:0>width$b}", v, width = size): left-padded with '0' up to
\* width, never truncated; a width above FMT_MAX_WIDTH panics in every build
format_binary(v, width) ==
    IF width > FMT_MAX_WIDTH THEN Panic("Formatting argument out of range")
    ELSE LET digits == to_binary(v)
         IN  IF Len(digits) >= width THEN Ok(digits)
             ELSE Ok(zeros(width - Len(digits)) \o digits)

---------------------------------------------------------------------------
(* calculate_twos_complement_rust *)

\* .map(|val| -(val + 1))
negate_successor(val) ==
    LET sum == i32_add(val, 1)
    IN  IF sum.tag = "Panic" THEN sum ELSE i32_neg(sum.val)

calculate_twos_complement_rust(binary_input) ==
    IF is_invalid_input(binary_input) THEN InvalidInput
    ELSE LET is_negative == binary_input[1] = "1"
         IN  IF is_negative
             THEN LET inverted_binary == invert_bits(binary_input)
                      parsed == from_str_radix(inverted_binary)
                  IN  IF parsed.tag = "Err" THEN ParseError(parsed.err)
                      ELSE negate_successor(parsed.val)
             ELSE LET parsed == from_str_radix(binary_input)
                  IN  IF parsed.tag = "Err" THEN ParseError(parsed.err)
                      ELSE Ok(parsed.val)

---------------------------------------------------------------------------
(* decimal_to_twos_complement_rust *)

\* the negative branch, lines 105-113
encode_negative(decimal, size) ==
    LET negated == i32_neg(decimal)
    IN  IF negated.tag = "Panic" THEN negated
        ELSE LET binary == format_binary(negated.val, size)
             IN  IF binary.tag = "Panic" THEN binary
                 ELSE LET ones_complement == invert_bits(binary.val)
                          parsed == from_str_radix(ones_complement)
                      IN  IF parsed.tag = "Err" THEN ParseError(parsed.err)
                          ELSE LET result == i32_add(parsed.val, 1)
                               IN  IF result.tag = "Panic" THEN result
                                   ELSE format_binary(result.val, size)

decimal_to_twos_complement_rust(decimal, size) ==
    IF size <= 0 THEN InvalidSize
    ELSE LET shifted == i32_shl_one(size - 1)
         IN  IF shifted.tag = "Panic" THEN shifted
             ELSE LET max_positive == i32_sub(shifted.val, 1)
                      min_negative == i32_neg(shifted.val)
                  IN  IF max_positive.tag = "Panic" THEN max_positive
                      ELSE IF min_negative.tag = "Panic" THEN min_negative
                      ELSE IF decimal > max_positive.val \/ decimal < min_negative.val
                           THEN OverflowError
                      ELSE IF decimal >= 0 THEN format_binary(decimal, size)
                      ELSE encode_negative(decimal, size)

---------------------------------------------------------------------------
(* f64 coordinates *)

\* A finite coordinate is an integer n.  An even n is the whole degree n/2
\* (Deg(d) is d degrees); an odd n is the largest f64 below (n + 1)/2 degrees,
\* the predecessor of that degree (11 is 5.999999999999999).  The order of
\* the integers is the order of the values.  NaN is the IEEE not-a-number:
\* every ordered comparison with it is false.
NaN == 1000000
Deg(d) == 2 * d

f64_lt(a, b) == a # NaN /\ b # NaN /\ a < b
f64_gt(a, b) == a # NaN /\ b # NaN /\ a > b
f64_ge(a, b) == a # NaN /\ b # NaN /\ a >= b

\* floor(log2(n)), n >= 1
ilog2(n) == CHOOSE k \in 0..30 : 2 ^ k <= n /\ n < 2 ^ (k + 1)

\* the binary exponent of the f64 values just below n >= 1: a power of two
\* has its predecessors in the binade below
exponent_below(n) == IF n = 2 ^ ilog2(n) THEN ilog2(n) - 1 ELSE ilog2(n)

\* the binary exponent of the gap between the whole degree g and its
\* predecessor: that of the values just below g > 0, that of |g| for g < 0
\* (the predecessor is further from zero); below 0.0 lies the smallest
\* subnormal
gap_exponent(g) ==
    IF g = 0 THEN -1074
    ELSE IF g > 0 THEN exponent_below(g) ELSE ilog2(-g)

\* x + offset in f64 for x the predecessor of the whole degree g, where
\* t = g + offset > 0: the exact sum t - gap is rounded to the nearest f64.
\* It is t when the gap is at most half the spacing of the values below t
\* (a tie goes to t, whose mantissa is even), and stays below t otherwise.
sum_rounds_up(g, t) == gap_exponent(g) < exponent_below(t)

\* ((x + offset) / width).floor() as usize (or as u32): the cast of NaN and
\* of a negative value is 0.  For a whole degree the sum and the floor of the
\* quotient are exact.  For a predecessor the sum is g + offset when it
\* rounds up, and otherwise a value just below it, whose quotient stays
\* below the next integer.
floor_quotient(x, offset, width) ==
    IF x = NaN THEN 0
    ELSE IF x + Deg(offset) < 0 THEN 0
    ELSE IF x % 2 = 0 THEN (x + Deg(offset)) \div Deg(width)
    ELSE LET g == x + 1
             t == g + Deg(offset)
         IN  IF sum_rounds_up(g, t) THEN t \div Deg(width)
             ELSE (t - 1) \div Deg(width)

---------------------------------------------------------------------------
(* get_mgrs_latitude_band *)

\* 'C'..='X'
letters_C_to_X ==
    <<"C", "D", "E", "F", "G", "H", "I", "J", "K", "L", "M",
      "N", "O", "P", "Q", "R", "S", "T", "U", "V", "W", "X">>

\* ('C'..='X').filter(|&c| c != 'I' && c != 'O').collect()
is_band_letter(c) == c # "I" /\ c # "O"
bands == SelectSeq(letters_C_to_X, is_band_letter)

InvalidLatitude(latitude) == Err(<<"InvalidLatitude", latitude>>)
InvalidLongitude(longitude) == Err(<<"InvalidLongitude", longitude>>)

\* bands[index]: indexing a Vec outside 0..len-1 panics in every build
band_at(index) ==
    IF index >= Len(bands) THEN Panic("index out of bounds")
    ELSE Ok(bands[index + 1])

get_mgrs_latitude_band(latitude) ==
    IF f64_lt(latitude, Deg(-80)) \/ f64_ge(latitude, Deg(84))
    THEN InvalidLatitude(latitude)
    ELSE LET index == floor_quotient(latitude, 80, 8)
         IN  band_at(index)

---------------------------------------------------------------------------
(* calculate_utm_zone *)

\* the if / else if chain of lines 279-289
zone_number_of(latitude, longitude) ==
    IF /\ f64_gt(latitude, Deg(55)) /\ f64_lt(latitude, Deg(64))
       /\ f64_gt(longitude, Deg(2)) /\ f64_lt(longitude, Deg(6))
    THEN 32
    ELSE IF /\ f64_gt(latitude, Deg(71))
            /\ f64_ge(longitude, Deg(6)) /\ f64_lt(longitude, Deg(9))
    THEN 31
    ELSE IF /\ f64_gt(latitude, Deg(71))
            /\ \/ f64_ge(longitude, Deg(9)) /\ f64_lt(longitude, Deg(12))
               \/ f64_ge(longitude, Deg(18)) /\ f64_lt(longitude, Deg(21))
    THEN 33
    ELSE IF /\ f64_gt(latitude, Deg(71))
            /\ \/ f64_ge(longitude, Deg(21)) /\ f64_lt(longitude, Deg(24))
               \/ f64_ge(longitude, Deg(30)) /\ f64_lt(longitude, Deg(33))
    THEN 35
    ELSE (floor_quotient(longitude, 180, 6) % 60) + 1

calculate_utm_zone(latitude, longitude) ==
    IF f64_lt(latitude, Deg(-90)) \/ f64_gt(latitude, Deg(90))
    THEN InvalidLatitude(latitude)
    ELSE IF f64_lt(longitude, Deg(-180)) \/ f64_gt(longitude, Deg(180))
    THEN InvalidLongitude(longitude)
    ELSE LET zone_number == zone_number_of(latitude, longitude)
             latitude_band == get_mgrs_latitude_band(latitude)
         IN  IF latitude_band.tag = "Ok"
             THEN Ok(<<zone_number, latitude_band.val>>)
             ELSE latitude_band

---------------------------------------------------------------------------
(* Inputs *)

Bit == {"0", "1"}
Alphabet == {"0", "1", "2"}

SeqsUpTo(S, n) == UNION {[1..k -> S] : k \in 0..n}
Fill(c, k) == [i \in 1..k |-> c]

ShortStrings == SeqsUpTo(Alphabet, MaxShort)
LongStrings ==
    {h \o Fill(c, k) \o t : h \in SeqsUpTo(Bit, MaxAffix), t \in SeqsUpTo(Bit, MaxAffix),
                            c \in Bit, k \in (MaxFill - 3)..MaxFill}
StringInputs == ShortStrings \cup LongStrings

SmallMagnitude == 2 ^ (MaxSmallSize - 1) + 1
BigExponents == {7, 29, 30}
DecimalInputs ==
    (-SmallMagnitude..SmallMagnitude)
    \cup {I32_MAX, I32_MAX - 1, I32_MIN, I32_MIN + 1}
    \cup UNION {{2 ^ k - 1, 2 ^ k, 2 ^ k + 1, -(2 ^ k) - 1, -(2 ^ k), -(2 ^ k) + 1} :
                    k \in BigExponents}
SizeInputs ==
    (0..MaxSmallSize) \cup {8}
    \cup ((I32_BITS - 2)..(I32_BITS + SizeSlack))
    \cup {2 * I32_BITS, 2 * I32_BITS + 1}
    \cup {FMT_MAX_WIDTH, FMT_MAX_WIDTH + 1}

\* every whole degree up to MaxLatDeg / MaxLonDeg on either side, the f64
\* just below each, and NaN
LatitudeInputs == (Deg(-MaxLatDeg)..Deg(MaxLatDeg)) \cup {NaN}
LongitudeInputs == (Deg(-MaxLonDeg)..Deg(MaxLonDeg)) \cup {NaN}

---------------------------------------------------------------------------
(* Calls *)

Skipped == [tag |-> "Skipped"]

\* a call is about to be made: the function and its arguments are chosen,
\* nothing is returned yet
Init ==
    /\ overflow_checks \in BOOLEAN
    /\ output = <<>>
    /\ \/ op = "decode" /\ input \in {<<b>> : b \in StringInputs}
       \/ op = "decode_encode" /\ input \in {<<b>> : b \in StringInputs}
       \/ op = "encode" /\ input \in DecimalInputs \X SizeInputs
       \/ op = "encode_decode" /\ input \in DecimalInputs \X SizeInputs
       \/ op = "utm" /\ input \in LatitudeInputs \X LongitudeInputs

Decode ==
    /\ op = "decode" /\ output = <<>>
    /\ output' = <<calculate_twos_complement_rust(input[1])>>
    /\ UNCHANGED <<overflow_checks, op, input>>

Encode ==
    /\ op = "encode" /\ output = <<>>
    /\ output' = <<decimal_to_twos_complement_rust(input[1], input[2])>>
    /\ UNCHANGED <<overflow_checks, op, input>>

\* encode, then decode what was encoded
EncodeDecode ==
    /\ op = "encode_decode" /\ output = <<>>
    /\ LET encoded == decimal_to_twos_complement_rust(input[1], input[2])
       IN  output' = <<encoded,
                       IF encoded.tag = "Ok"
                       THEN calculate_twos_complement_rust(encoded.val)
                       ELSE Skipped>>
    /\ UNCHANGED <<overflow_checks, op, input>>

\* decode, then encode what was decoded on the width of the string
DecodeEncode ==
    /\ op = "decode_encode" /\ output = <<>>
    /\ LET decoded == calculate_twos_complement_rust(input[1])
       IN  output' = <<decoded,
                       IF decoded.tag = "Ok"
                       THEN decimal_to_twos_complement_rust(decoded.val, Len(input[1]))
                       ELSE Skipped>>
    /\ UNCHANGED <<overflow_checks, op, input>>

UtmZone ==
    /\ op = "utm" /\ output = <<>>
    /\ output' = <<calculate_utm_zone(input[1], input[2])>>
    /\ UNCHANGED <<overflow_checks, op, input>>

Next == Decode \/ Encode \/ EncodeDecode \/ DecodeEncode \/ UtmZone

Spec == Init /\ [][Next]_vars

---------------------------------------------------------------------------
(* Vocabulary of the properties, stated without the operators of the model *)

\* the call of f has returned
Returned(f) == op = f /\ Len(output) > 0

IsBinary(b) == Len(b) > 0 /\ \A i \in 1..Len(b) : b[i] \in {"0", "1"}

\* v lies in [-2^(size-1), 2^(size-1)-1]; from 32 bits on every i32 does
InRange(v, size) ==
    size >= 32 \/ (v >= -(2 ^ (size - 1)) /\ v <= 2 ^ (size - 1) - 1)

\* 2^(size-1) - 1, the largest value of size <= 32 bits
RangeMax(size) == IF size = 32 THEN 2147483647 ELSE 2 ^ (size - 1) - 1

\* bit j (0 = least significant) of the two's complement of the i32 v,
\* sign-extended beyond bit 31
BitOf(v, j) ==
    IF j >= 31 THEN (IF v < 0 THEN "1" ELSE "0")
    ELSE LET low == IF v >= 0 THEN v ELSE (v + 2147483647) + 1
         IN  IF (low \div (2 ^ j)) % 2 = 1 THEN "1" ELSE "0"

\* b is the Len(b)-bit two's complement of v: unsigned(b) = v when b starts
\* with '0' and unsigned(b) - 2^Len(b) = v when it starts with '1'
Represents(b, v) ==
    /\ \A j \in 0..(Len(b) - 1) : b[Len(b) - j] = BitOf(v, j)
    /\ \A j \in (Len(b) - 1)..31 : BitOf(v, j) = b[1]

\* the two's-complement value of b fits an i32: the bits above bit 31 repeat
\* the sign
FitsI32(b) == \A i \in 1..(Len(b) - 31) : b[i] = b[1]

\* the string the decoder parses is b, inverted when b starts with '1'; its
\* magnitude exceeds 2^31 - 1 when it has a '1' above its 31 low digits
ParsedDigit(b, i) ==
    IF b[1] = "1" THEN (IF b[i] = "0" THEN "1" ELSE "0") ELSE b[i]
MagnitudeExceedsI32(b) == \E i \in 1..(Len(b) - 31) : ParsedDigit(b, i) = "1"

IsNumber(x) == x # NaN
Within(x, lo, hi) == IsNumber(x) /\ Deg(lo) <= x /\ x <= Deg(hi)

\* 'C'..'X' without 'I' and 'O'
BandLetters ==
    <<"C", "D", "E", "F", "G", "H", "J", "K", "L", "M",
      "N", "P", "Q", "R", "S", "T", "U", "V", "W", "X">>

\* the four exception regions of the zone rule
Region32(lat, lon) ==
    /\ IsNumber(lat) /\ IsNumber(lon)
    /\ Deg(55) < lat /\ lat < Deg(64) /\ Deg(2) < lon /\ lon < Deg(6)
Region31(lat, lon) ==
    /\ IsNumber(lat) /\ IsNumber(lon)
    /\ lat > Deg(71) /\ Deg(6) <= lon /\ lon < Deg(9)
Region33(lat, lon) ==
    /\ IsNumber(lat) /\ IsNumber(lon) /\ lat > Deg(71)
    /\ \/ Deg(9) <= lon /\ lon < Deg(12)
       \/ Deg(18) <= lon /\ lon < Deg(21)
Region35(lat, lon) ==
    /\ IsNumber(lat) /\ IsNumber(lon) /\ lat > Deg(71)
    /\ \/ Deg(21) <= lon /\ lon < Deg(24)
       \/ Deg(30) <= lon /\ lon < Deg(33)
RegionsHolding(lat, lon) ==
    {z \in {31, 32, 33, 35} :
        \/ z = 32 /\ Region32(lat, lon)
        \/ z = 31 /\ Region31(lat, lon)
        \/ z = 33 /\ Region33(lat, lon)
        \/ z = 35 /\ Region35(lat, lon)}
\* floor((longitude + 180) / 6) mod 60 + 1, longitude a number
DefaultZone(lon) == (((lon + Deg(180)) \div Deg(6)) % 60) + 1

---------------------------------------------------------------------------
(* Properties *)

\* C1: round trip.  For every size >= 1 and every i32 v in
\* [-2^(size-1), 2^(size-1)-1], decimal_to_twos_complement_rust(v, size)
\* succeeds with a string s and calculate_twos_complement_rust(s) succeeds
\* with exactly v.
C1_RoundTrip ==
    (Returned("encode_decode") /\ input[2] >= 1 /\ InRange(input[1], input[2]))
        => /\ output[1].tag = "Ok"
           /\ output[2].tag = "Ok"
           /\ output[2].val = input[1]

\* C2: for every latitude in [-80, 84) and longitude in [-180, 180],
\* calculate_utm_zone succeeds and its band is the letter at index
\* floor((latitude + 80) / 8) of 'C'..'X' without 'I' and 'O'; the index is
\* inside that sequence and the letter is neither 'I' nor 'O'.
C2_BandLookup ==
    (/\ Returned("utm")
     /\ IsNumber(input[1]) /\ Deg(-80) <= input[1] /\ input[1] < Deg(84)
     /\ Within(input[2], -180, 180))
        => LET index == (input[1] + Deg(80)) \div Deg(8)
           IN  /\ index < Len(BandLetters)
               /\ output[1].tag = "Ok"
               /\ output[1].val[2] = BandLetters[index + 1]
               /\ output[1].val[2] \notin {"I", "O"}

\* C3: for every size >= 1 the encoder fails with OverflowError exactly when
\* the value lies outside [-2^(size-1), 2^(size-1)-1], and it succeeds on
\* the two ends 2^(size-1)-1 and -2^(size-1) of that range.
C3_OverflowBoundary ==
    (Returned("encode") /\ input[2] >= 1)
        => /\ (output[1] = OverflowError) <=> ~InRange(input[1], input[2])
           /\ (input[2] <= 32 /\ input[1] = RangeMax(input[2]))
                  => output[1].tag = "Ok"
           /\ (input[2] <= 32 /\ input[1] = -RangeMax(input[2]) - 1)
                  => output[1].tag = "Ok"

\* C4: width invariant.  Whenever decimal_to_twos_complement_rust(v, size)
\* succeeds, the string it returns has exactly size characters, each '0' or
\* '1', for negative v too.
C4_WidthInvariant ==
    (Returned("encode") /\ output[1].tag = "Ok")
        => /\ Len(output[1].val) = input[2]
           /\ \A i \in 1..Len(output[1].val) : output[1].val[i] \in {"0", "1"}

\* C4 witness: a negative value was encoded on 8 bits
C4_Witness ==
    /\ Returned("encode")
    /\ input = <<-5, 8>>
    /\ output[1] = Ok(<<"1", "1", "1", "1", "1", "0", "1", "1">>)

\* C5: zone rule.  Whenever calculate_utm_zone succeeds, the zone lies in
\* 1..60; at most one exception region holds; for a numeric longitude the
\* zone is 32, 31, 33 or 35 in the exception region that holds and outside
\* the regions it is floor((longitude + 180) / 6) mod 60 + 1 (longitude 180
\* gives 1).
C5_ZoneRule ==
    (Returned("utm") /\ output[1].tag = "Ok")
        => LET lat == input[1]
               lon == input[2]
               zone == output[1].val[1]
           IN  /\ zone \in 1..60
               /\ Cardinality(RegionsHolding(lat, lon)) <= 1
               /\ IsNumber(lon) =>
                      /\ \A z \in RegionsHolding(lat, lon) : zone = z
                      /\ RegionsHolding(lat, lon) = {} => zone = DefaultZone(lon)
                      /\ lon = Deg(180) => zone = 1

\* C6: failure domain of calculate_utm_zone.  InvalidLatitude when the
\* latitude is outside [-90, 90], whatever the longitude; InvalidLongitude
\* when the latitude is inside and the longitude outside [-180, 180]; the
\* band stage's InvalidLatitude of the input latitude when the longitude is
\* valid and the latitude in [-90, -80) or [84, 90]; so success only for
\* latitude in [-80, 84) and longitude in [-180, 180].
C6_FailureDomain ==
    Returned("utm")
        => LET lat == input[1]
               lon == input[2]
           IN  /\ ~Within(lat, -90, 90) => output[1] = InvalidLatitude(lat)
               /\ (Within(lat, -90, 90) /\ ~Within(lon, -180, 180))
                      => output[1] = InvalidLongitude(lon)
               /\ (/\ Within(lon, -180, 180)
                   /\ Within(lat, -90, 90)
                   /\ (lat < Deg(-80) \/ lat >= Deg(84)))
                      => output[1] = InvalidLatitude(lat)
               /\ output[1].tag = "Ok"
                      => /\ Within(lon, -180, 180)
                         /\ IsNumber(lat) /\ Deg(-80) <= lat /\ lat < Deg(84)

\* C7: decoded value.  For every non-empty string b of binary digits whose
\* two's-complement value fits an i32, calculate_twos_complement_rust(b)
\* succeeds with that value: unsigned(b) when b starts with '0',
\* unsigned(b) - 2^Len(b) when it starts with '1' ("1" and 31 zeros: -2^31).
C7_DecodedValue ==
    (Returned("decode") /\ IsBinary(input[1]) /\ FitsI32(input[1]))
        => /\ output[1].tag = "Ok"
           /\ Represents(input[1], output[1].val)

\* C8: error classification of the decoder.  InvalidInput exactly when the
\* string is empty or has a character other than '0' and '1'; for a string
\* of binary digits, ParseError exactly when the magnitude of the parsed
\* string (b, inverted when b starts with '1') exceeds 2^31 - 1, so never
\* because of leading zeros.
C8_ErrorClassification ==
    Returned("decode")
        => /\ (output[1] = InvalidInput) <=> ~IsBinary(input[1])
           /\ IsBinary(input[1])
                  => ((output[1].tag = "Err" /\ output[1].err[1] = "ParseError")
                         <=> MagnitudeExceedsI32(input[1]))

\* C8 witness: a string of more than 32 digits starting with '1' whose
\* inverse exceeds 2^31 - 1 was rejected with ParseError, and one with
\* leading zeros after inversion would not be (its magnitude decides)
C8_Witness ==
    /\ Returned("decode")
    /\ Len(input[1]) > 32
    /\ input[1][1] = "1"
    /\ MagnitudeExceedsI32(input[1])
    /\ output[1] = ParseError(<<"PosOverflow">>)

\* C9: no abort.  Every call of the decoder, the encoder and the UTM
\* resolver returns a success value or an error value, never a panic, and
\* the encoder returns InvalidSize for size 0 whatever the value.
C9_NoAbort ==
    /\ \A i \in 1..Len(output) : output[i].tag # "Panic"
    /\ (Returned("encode") /\ input[2] = 0) => output[1] = InvalidSize

\* C10: reverse round trip.  For every non-empty string b of binary digits
\* that calculate_twos_complement_rust decodes to v,
\* decimal_to_twos_complement_rust(v, Len(b)) succeeds and returns exactly
\* b, whose first character is '1' exactly when v is negative.
C10_ReverseRoundTrip ==
    (Returned("decode_encode") /\ output[1].tag = "Ok")
        => /\ output[2].tag = "Ok"
           /\ output[2].val = input[1]
           /\ (input[1][1] = "1") <=> (output[1].val < 0)

====
